---- MODULE Spec2Model ----
(***************************************************************************)
(* Model of src/app.py: the Streamlit page that composes an Imagen prompt  *)
(* from a passage and six style options (_build_prompt) and sends it to    *)
(* the image-generation service (main).                                    *)
(*                                                                         *)
(* A Python str is modelled as the sequence of its characters.  An ASCII   *)
(* character is the one-character string itself; any other character is    *)
(* the string "U+<code point>", so that the Korean option values of the    *)
(* source keep their exact length and spelling.                            *)
(***************************************************************************)
EXTENDS Integers, Sequences, FiniteSets, TLC

VARIABLES
    selected_sample,   \* main: value of the sample selectbox (line 80)
    art_style,         \* main: value of each style selectbox (lines 81-125)
    mood,
    color_palette,
    detail_level,
    camera_focus,
    era,
    text_area_value,   \* the value= the passage text area was last created with
    passage,           \* main: content of the passage text area (line 131)
    final_prompt,      \* main: result of _build_prompt (line 138)
    pc,                \* position of the script run
    clicked,           \* whether this run was triggered by the generate button
    initialised,       \* whether vertexai.init returned in this run
    shown,             \* what this run has put on the page
    requests           \* prompts passed to generate_images in this run

vars == << selected_sample, art_style, mood, color_palette, detail_level,
           camera_focus, era, text_area_value, passage, final_prompt, pc,
           clicked, initialised, shown, requests >>

\* ------------------------------------------------------------------------
\* Bounds of the model.

\* Longest passage typed character by character.
MaxLen == 2

\* How many of a selectbox's entries after its first one are offered.
MaxChoices == 1

\* ------------------------------------------------------------------------
\* String literals of the source.

\* the literal "gibon" (default) of line 50
DEFAULT_MARK ==
    <<"U+AE30", "U+BCF8">>

\* the literal "(seontaek an ham)" (not chosen) of line 50
NOT_CHOSEN_MARK ==
    <<"(", "U+C120", "U+D0DD", " ", "U+C548", " ", "U+D568", ")">>

DELIMITER ==
    <<" ", "|", " ">>

LABEL_SEP ==
    <<":", " ">>

LABEL_ART_STYLE ==
    <<"A", "r", "t", " ", "s", "t", "y", "l", "e">>

LABEL_MOOD ==
    <<"M", "o", "o", "d">>

LABEL_COLOUR_PALETTE ==
    <<"C", "o", "l", "o", "u", "r", " ", "p", "a", "l", "e", "t", "t", "e">>

LABEL_DETAIL ==
    <<"D", "e", "t", "a", "i", "l">>

LABEL_CAMERA ==
    <<"C", "a", "m", "e", "r", "a">>

LABEL_ERA ==
    <<"E", "r", "a">>

\* the first entry of the sample selectbox, "jikjeop ipryeok" (type it yourself)
DIRECT_INPUT ==
    <<"U+C9C1", "U+C811", " ", "U+C785", "U+B825">>

\* the keys of sample_passages, in insertion order
sample_labels ==
    << <<"U+B9C8", "U+BC95", " ", "U+D559", "U+AD50", "U+C758", " ", "U+C5F0", "U+D68C",
          "U+C7A5">>,
       <<"S", "F", " ", "U+C6B0", "U+C8FC", " ", "U+C815", "U+AC70", "U+C7A5">>,
       <<"U+ACE0", "U+C804", " ", "U+CD94", "U+B9AC", "U+ADF9">> >>

\* the values of sample_passages, in the same order
sample_texts ==
    << <<"U+CD1B", "U+BD88", "U+C774", " ", "U+D5C8", "U+ACF5", "U+C5D0", " ", "U+B5A0", " ",
          "U+C788", "U+ACE0", " ", "U+AE34", " ", "U+C2DD", "U+D0C1", "U+C774", " ",
          "U+B298", "U+C5B4", "U+C120", " ", "U+ACE0", "U+B515", "U+D48D", " ",
          "U+C5F0", "U+D68C", "U+C7A5", ".">>,
       <<"U+AC70", "U+B300", "U+D55C", " ", "U+C720", "U+B9AC", "U+CC3D", " ", "U+B108",
          "U+BA38", "U+B85C", " ", "U+D478", "U+B978", " ", "U+D589", "U+C131",
          "U+C774", " ", "U+BCF4", "U+C774", "U+ACE0", ",", " ", "U+AE08", "U+C18D",
          " ", "U+C9C8", "U+AC10", "U+C758", " ", "U+BCF5", "U+B3C4", "U+AC00", " ",
          "U+C774", "U+C5B4", "U+C9C4", "U+B2E4", ".">>,
       <<"U+BE44", "U+C5D0", " ", "U+C816", "U+C740", " ", "U+B7F0", "U+B358", " ", "U+ACE8",
          "U+BAA9", ",", " ", "U+AC00", "U+C2A4", "U+B4F1", " ", "U+C544", "U+B798",
          " ", "U+C2E4", "U+B8E8", "U+C5E3", "U+C73C", "U+B85C", " ", "U+BCF4",
          "U+C774", "U+B294", " ", "U+D0D0", "U+C815", "U+C758", " ", "U+BAA8",
          "U+C2B5", ".">> >>

art_style_options ==
    << <<"U+AE30", "U+BCF8">>,
       <<"U+C218", "U+CC44", "U+D654", " ", "U+C77C", "U+B7EC", "U+C2A4", "U+D2B8">>,
       <<"U+C2DC", "U+B124", "U+B9C8", "U+D2F1", " ", "U+C0AC", "U+C9C4">>,
       <<"U+B514", "U+C9C0", "U+D138", " ", "U+D398", "U+C778", "U+D305">>,
       <<"U+C720", "U+D654">>,
       <<"U+D53D", "U+C140", " ", "U+C544", "U+D2B8">> >>

mood_options ==
    << <<"U+AE30", "U+BCF8">>,
       <<"U+B530", "U+B73B", "U+D558", "U+ACE0", " ", "U+D3EC", "U+ADFC", "U+D55C">>,
       <<"U+C5B4", "U+B461", "U+ACE0", " ", "U+BBF8", "U+C2A4", "U+D130", "U+B9AC", "U+D55C">>,
       <<"U+C11C", "U+C2A4", "U+D39C", "U+C2A4", " ", "U+B118", "U+CE58", "U+B294">>,
       <<"U+AC10", "U+C131", "U+C801", "U+C778">>,
       <<"U+C7A5", "U+C5C4", "U+D558", "U+ACE0", " ", "U+C6C5", "U+C7A5", "U+D55C">> >>

color_palette_options ==
    << <<"U+AE30", "U+BCF8">>,
       <<"U+B530", "U+B73B", "U+D55C", " ", "U+C0C9", "U+C870">>,
       <<"U+CC28", "U+AC00", "U+C6B4", " ", "U+C0C9", "U+C870">>,
       <<"U+BAA8", "U+B178", "U+D1A4">>,
       <<"U+D30C", "U+C2A4", "U+D154">>,
       <<"U+C120", "U+BA85", "U+D55C", " ", "U+B300", "U+BE44">> >>

detail_level_options ==
    << <<"U+AE30", "U+BCF8">>,
       <<"U+CD08", "U+ACE0", "U+D574", "U+C0C1", "U+B3C4">>,
       <<"U+C6B8", "U+D2B8", "U+B77C", " ", "U+B514", "U+D14C", "U+C77C">>,
       <<"U+AFC8", "U+ACB0", " ", "U+AC19", "U+C740", " ", "U+C18C", "U+D504", "U+D2B8", " ",
          "U+D3EC", "U+CEE4", "U+C2A4">> >>

camera_focus_options ==
    << <<"(", "U+C120", "U+D0DD", " ", "U+C548", " ", "U+D568", ")">>,
       <<"U+AD11", "U+AC01", " ", "U+BDF0">>,
       <<"U+B4DC", "U+B860", " ", "U+BDF0">>,
       <<"U+D074", "U+B85C", "U+C988", "U+C5C5">>,
       <<"U+C2DC", "U+C810", " ", "U+C0F7", " ", "(", "P", "O", "V", ")">>,
       <<"U+C2DC", "U+B124", "U+B9C8", "U+D2F1", " ", "U+C640", "U+C774", "U+B4DC", "U+C0F7">> >>

era_options ==
    << <<"(", "U+C120", "U+D0DD", " ", "U+C548", " ", "U+D568", ")">>,
       <<"U+D604", "U+B300">>,
       <<"U+C911", "U+C138", " ", "U+D310", "U+D0C0", "U+C9C0">>,
       <<"U+BE45", "U+D1A0", "U+B9AC", "U+C544", " ", "U+C2DC", "U+B300">>,
       <<"U+C0AC", "U+C774", "U+BC84", "U+D391", "U+D06C">>,
       <<"U+D3EC", "U+C2A4", "U+D2B8", " ", "U+C544", "U+D3EC", "U+CE7C", "U+B9BD", "U+C2A4">> >>


\* ------------------------------------------------------------------------
\* Python str operations used by the source.

\* The characters str.strip() removes.
WHITESPACE == {" ", "\t", "\n", "\r"}

RECURSIVE lstrip(_)
lstrip(s) ==
    IF s # <<>> /\ Head(s) \in WHITESPACE THEN lstrip(Tail(s)) ELSE s

RECURSIVE rstrip(_)
rstrip(s) ==
    IF s # <<>> /\ s[Len(s)] \in WHITESPACE
    THEN rstrip(SubSeq(s, 1, Len(s) - 1))
    ELSE s

\* str.strip()
strip(s) == rstrip(lstrip(s))

\* sep.join(parts)
RECURSIVE join(_, _)
join(sep, parts) ==
    IF parts = <<>> THEN <<>>
    ELSE IF Len(parts) = 1 THEN parts[1]
    ELSE parts[1] \o sep \o join(sep, Tail(parts))

\* f"{label}: {value}"
segment(label, value) == label \o LABEL_SEP \o value

\* ------------------------------------------------------------------------
\* _build_prompt (lines 32-60).

\* Variant: only the "default" spelling is left out.
_append_if_content_default_only(parts, label, value) ==
    IF value # <<>> /\ value # DEFAULT_MARK
    THEN Append(parts, segment(label, value))
    ELSE parts

\* Variant: only the "not chosen" spelling is left out.
_append_if_content_not_chosen_only(parts, label, value) ==
    IF value # <<>> /\ value # NOT_CHOSEN_MARK
    THEN Append(parts, segment(label, value))
    ELSE parts

\* The nested helper: parts after the call.
_append_if_content(parts, label, value) ==
    IF value # <<>> /\ value # DEFAULT_MARK /\ value # NOT_CHOSEN_MARK
    THEN Append(parts, segment(label, value))
    ELSE parts

\* Variant: the passage is used as typed, without strip().
_build_prompt_unstripped(p, art, md, col, det, cam, er) ==
    LET parts0 == IF p # <<>> THEN <<p>> ELSE <<>>
        parts1 == _append_if_content(parts0, LABEL_ART_STYLE, art)
        parts2 == _append_if_content(parts1, LABEL_MOOD, md)
        parts3 == _append_if_content(parts2, LABEL_COLOUR_PALETTE, col)
        parts4 == _append_if_content(parts3, LABEL_DETAIL, det)
        parts5 == _append_if_content(parts4, LABEL_CAMERA, cam)
        parts6 == _append_if_content(parts5, LABEL_ERA, er)
    IN  join(DELIMITER, parts6)

\* Variant: the stripped passage is appended even when it is empty.
_build_prompt_keeps_empty_passage(p, art, md, col, det, cam, er) ==
    LET stripped == strip(p)
        parts0 == <<stripped>>
        parts1 == _append_if_content(parts0, LABEL_ART_STYLE, art)
        parts2 == _append_if_content(parts1, LABEL_MOOD, md)
        parts3 == _append_if_content(parts2, LABEL_COLOUR_PALETTE, col)
        parts4 == _append_if_content(parts3, LABEL_DETAIL, det)
        parts5 == _append_if_content(parts4, LABEL_CAMERA, cam)
        parts6 == _append_if_content(parts5, LABEL_ERA, er)
    IN  join(DELIMITER, parts6)

\* Variant: the era is appended before the camera.
_build_prompt_era_before_camera(p, art, md, col, det, cam, er) ==
    LET stripped == strip(p)
        parts0 == IF stripped # <<>> THEN <<stripped>> ELSE <<>>
        parts1 == _append_if_content(parts0, LABEL_ART_STYLE, art)
        parts2 == _append_if_content(parts1, LABEL_MOOD, md)
        parts3 == _append_if_content(parts2, LABEL_COLOUR_PALETTE, col)
        parts4 == _append_if_content(parts3, LABEL_DETAIL, det)
        parts5 == _append_if_content(parts4, LABEL_ERA, er)
        parts6 == _append_if_content(parts5, LABEL_CAMERA, cam)
    IN  join(DELIMITER, parts6)

_build_prompt(p, art, md, col, det, cam, er) ==
    LET stripped == strip(p)
        parts0 == IF stripped # <<>> THEN <<stripped>> ELSE <<>>
        parts1 == _append_if_content(parts0, LABEL_ART_STYLE, art)
        parts2 == _append_if_content(parts1, LABEL_MOOD, md)
        parts3 == _append_if_content(parts2, LABEL_COLOUR_PALETTE, col)
        parts4 == _append_if_content(parts3, LABEL_DETAIL, det)
        parts5 == _append_if_content(parts4, LABEL_CAMERA, cam)
        parts6 == _append_if_content(parts5, LABEL_ERA, er)
    IN  join(DELIMITER, parts6)

\* ------------------------------------------------------------------------
\* Passages and prompts of the scenarios.


OceanView ==
    <<"O", "c", "e", "a", "n", " ", "v", "i", "e", "w">>

DarkCastle ==
    <<"A", " ", "d", "a", "r", "k", " ", "c", "a", "s", "t", "l", "e", ".">>

PaddedPassage ==
    <<"\n", " ", "a", " ", "|", " ", "b", "\t", " ">>

LabelLikePassage ==
    <<"E", "r", "a", ":", " ", "U+D604", "U+B300">>

OceanViewPrompt ==
    <<"O", "c", "e", "a", "n", " ", "v", "i", "e", "w", " ", "|", " ", "M", "o", "o",
    "d", ":", " ", "U+B530", "U+B73B", "U+D558", "U+ACE0", " ", "U+D3EC", "U+ADFC",
    "U+D55C", " ", "|", " ", "E", "r", "a", ":", " ", "U+D604", "U+B300">>


\* ------------------------------------------------------------------------
\* Inputs.

Min(a, b) == IF a < b THEN a ELSE b

\* The entries of a selectbox the model's user picks from: its first entry
\* (the one selected when the page loads) and the MaxChoices after it.
Offered(options) ==
    {options[i] : i \in 1..Min(Len(options), 1 + MaxChoices)}

\* The two "nothing selected" spellings.
Sentinels == {DEFAULT_MARK, NOT_CHOSEN_MARK}

\* What _build_prompt may be handed for a field: an entry of the field's
\* list or either sentinel spelling.
FieldValues(options) == Offered(options) \cup Sentinels

\* Characters the model's user types.
PassageChars == {" ", "a"}

TypedPassages == UNION {[1..n -> PassageChars] : n \in 0..MaxLen}

\* Passages handed to _build_prompt on its own.
ComposePassages ==
    TypedPassages \cup {OceanView, DarkCastle, PaddedPassage, LabelLikePassage}

\* Passages the user of the page types into the text area.
AppPassages == TypedPassages \cup {OceanView}

\* sample_passages (lines 72-76) as a mapping from label to text.
sample_passages ==
    [l \in {sample_labels[i] : i \in 1..Len(sample_labels)} |->
        sample_texts[CHOOSE i \in 1..Len(sample_labels) : sample_labels[i] = l]]

\* The entries of the sample selectbox (line 80).
sample_options == <<DIRECT_INPUT>> \o sample_labels

\* ------------------------------------------------------------------------
\* The page: one script run of main per user interaction.

\* Session start: every selectbox shows its first entry, the text area is
\* empty, and main runs once without a button press.
Init ==
    /\ selected_sample = sample_options[1]
    /\ art_style = art_style_options[1]
    /\ mood = mood_options[1]
    /\ color_palette = color_palette_options[1]
    /\ detail_level = detail_level_options[1]
    /\ camera_focus = camera_focus_options[1]
    /\ era = era_options[1]
    /\ text_area_value = <<>>
    /\ passage = <<>>
    /\ final_prompt = <<>>
    /\ pc = "init"
    /\ clicked = FALSE
    /\ initialised = FALSE
    /\ shown = {}
    /\ requests = <<>>

widgets == << selected_sample, art_style, mood, color_palette, detail_level,
              camera_focus, era, text_area_value, passage >>

\* Variant: the failure is reported but the run goes on to the form.
InitVertexAI_no_stop ==
    /\ pc = "init"
    /\ \E key_exists \in BOOLEAN, init_raises \in BOOLEAN :
          \/ /\ ~key_exists
             /\ shown' = shown \cup {"key_error"}
             /\ UNCHANGED initialised
          \/ /\ key_exists
             /\ init_raises
             /\ shown' = shown \cup {"init_error"}
             /\ UNCHANGED initialised
          \/ /\ key_exists
             /\ ~init_raises
             /\ initialised' = TRUE
             /\ UNCHANGED shown
    /\ pc' = "form"
    /\ UNCHANGED << widgets, final_prompt, clicked, requests >>

\* _init_vertex_ai (lines 16-29): st.error and st.stop when the key file is
\* absent or vertexai.init raises.  Both are read from the environment.
InitVertexAI ==
    /\ pc = "init"
    /\ \E key_exists \in BOOLEAN, init_raises \in BOOLEAN :
          \/ /\ ~key_exists
             /\ shown' = shown \cup {"key_error"}
             /\ pc' = "stopped"
             /\ UNCHANGED initialised
          \/ /\ key_exists
             /\ init_raises
             /\ shown' = shown \cup {"init_error"}
             /\ pc' = "stopped"
             /\ UNCHANGED initialised
          \/ /\ key_exists
             /\ ~init_raises
             /\ initialised' = TRUE
             /\ pc' = "form"
             /\ UNCHANGED shown
    /\ UNCHANGED << widgets, final_prompt, clicked, requests >>

\* Lines 127-129.
default_passage ==
    IF selected_sample # DIRECT_INPUT THEN sample_passages[selected_sample] ELSE <<>>

\* Lines 72-146: the widgets are drawn and read, the prompt is composed.
\* A text area created with another value= is a new widget and shows that
\* value; otherwise it keeps what the user typed.
RenderForm ==
    /\ pc = "form"
    /\ passage' = IF default_passage # text_area_value THEN default_passage ELSE passage
    /\ text_area_value' = default_passage
    /\ final_prompt' = _build_prompt(passage', art_style, mood, color_palette,
                                     detail_level, camera_focus, era)
    /\ shown' = shown \cup {"form"}
    /\ pc' = "button"
    /\ UNCHANGED << selected_sample, art_style, mood, color_palette, detail_level,
                    camera_focus, era, clicked, initialised, requests >>

\* Variant: the warning is shown but the run is not stopped.
Button_warns_without_stop ==
    /\ pc = "button"
    /\ \/ /\ ~clicked
          /\ shown' = shown \cup {"button"}
          /\ pc' = "done"
       \/ /\ clicked
          /\ strip(passage) = <<>>
          /\ shown' = shown \cup {"button", "warning"}
          /\ pc' = "generate"
       \/ /\ clicked
          /\ strip(passage) # <<>>
          /\ shown' = shown \cup {"button"}
          /\ pc' = "generate"
    /\ UNCHANGED << widgets, final_prompt, clicked, initialised, requests >>

\* Variant: the passage is not looked at before the request.
Button_no_blank_check ==
    /\ pc = "button"
    /\ shown' = shown \cup {"button"}
    /\ pc' = IF clicked THEN "generate" ELSE "done"
    /\ UNCHANGED << widgets, final_prompt, clicked, initialised, requests >>

\* Lines 148-151: the button is drawn; a press with a blank passage warns
\* and stops.
Button ==
    /\ pc = "button"
    /\ \/ /\ ~clicked
          /\ shown' = shown \cup {"button"}
          /\ pc' = "done"
       \/ /\ clicked
          /\ strip(passage) = <<>>
          /\ shown' = shown \cup {"button", "warning"}
          /\ pc' = "stopped"
       \/ /\ clicked
          /\ strip(passage) # <<>>
          /\ shown' = shown \cup {"button"}
          /\ pc' = "generate"
    /\ UNCHANGED << widgets, final_prompt, clicked, initialised, requests >>

\* Variant: a raising generate_images is called a second time.
GenerateImage_retries ==
    /\ pc = "generate"
    /\ \/ /\ requests' = requests
          /\ shown' = shown \cup {"error"}
       \/ /\ requests' = requests \o <<final_prompt, final_prompt>>
          /\ shown' = shown \cup {"error"}
       \/ /\ requests' = Append(requests, final_prompt)
          /\ shown' = shown \cup {"image", "success"}
    /\ pc' = "done"
    /\ UNCHANGED << widgets, final_prompt, clicked, initialised >>

\* Variant: the passage is sent instead of the composed prompt.
GenerateImage_sends_passage ==
    /\ pc = "generate"
    /\ \/ /\ requests' = requests
          /\ shown' = shown \cup {"error"}
       \/ /\ requests' = Append(requests, passage)
          /\ shown' = shown \cup {"error"}
       \/ /\ requests' = Append(requests, passage)
          /\ shown' = shown \cup {"image", "success"}
    /\ pc' = "done"
    /\ UNCHANGED << widgets, final_prompt, clicked, initialised >>

\* Lines 153-164: one try block around from_pretrained, generate_images and
\* the display of the first image; any exception is reported by st.error.
GenerateImage ==
    /\ pc = "generate"
    /\ \/ \* from_pretrained raises: no request is made
          /\ requests' = requests
          /\ shown' = shown \cup {"error"}
       \/ \* generate_images raises, or its response cannot be displayed
          /\ requests' = Append(requests, final_prompt)
          /\ shown' = shown \cup {"error"}
       \/ \* the first image is displayed
          /\ requests' = Append(requests, final_prompt)
          /\ shown' = shown \cup {"image", "success"}
    /\ pc' = "done"
    /\ UNCHANGED << widgets, final_prompt, clicked, initialised >>

\* A user interaction starts a new script run from the top of main.
Rerun(pressed) ==
    /\ pc' = "init"
    /\ clicked' = pressed
    /\ initialised' = FALSE
    /\ shown' = {}
    /\ requests' = <<>>
    /\ final_prompt' = <<>>

Idle == pc \in {"done", "stopped"}

\* Line 80: the user picks another sample.
SelectSample ==
    /\ Idle
    /\ "form" \in shown
    /\ \E s \in Offered(sample_options) :
          /\ s # selected_sample
          /\ selected_sample' = s
    /\ Rerun(FALSE)
    /\ UNCHANGED << art_style, mood, color_palette, detail_level, camera_focus,
                    era, text_area_value, passage >>

\* Lines 81-125: the user picks another entry of one style selectbox.
SelectOption ==
    /\ Idle
    /\ "form" \in shown
    /\ \/ /\ \E v \in Offered(art_style_options) : v # art_style /\ art_style' = v
          /\ UNCHANGED << mood, color_palette, detail_level, camera_focus, era >>
       \/ /\ \E v \in Offered(mood_options) : v # mood /\ mood' = v
          /\ UNCHANGED << art_style, color_palette, detail_level, camera_focus, era >>
       \/ /\ \E v \in Offered(color_palette_options) :
                v # color_palette /\ color_palette' = v
          /\ UNCHANGED << art_style, mood, detail_level, camera_focus, era >>
       \/ /\ \E v \in Offered(detail_level_options) :
                v # detail_level /\ detail_level' = v
          /\ UNCHANGED << art_style, mood, color_palette, camera_focus, era >>
       \/ /\ \E v \in Offered(camera_focus_options) :
                v # camera_focus /\ camera_focus' = v
          /\ UNCHANGED << art_style, mood, color_palette, detail_level, era >>
       \/ /\ \E v \in Offered(era_options) : v # era /\ era' = v
          /\ UNCHANGED << art_style, mood, color_palette, detail_level, camera_focus >>
    /\ Rerun(FALSE)
    /\ UNCHANGED << selected_sample, text_area_value, passage >>

\* Line 131: the user edits the text area.
EditPassage ==
    /\ Idle
    /\ "form" \in shown
    /\ \E p \in AppPassages :
          /\ p # passage
          /\ passage' = p
    /\ Rerun(FALSE)
    /\ UNCHANGED << selected_sample, art_style, mood, color_palette, detail_level,
                    camera_focus, era, text_area_value >>

\* Line 148: the user presses the generate button.
PressButton ==
    /\ Idle
    /\ "button" \in shown
    /\ Rerun(TRUE)
    /\ UNCHANGED widgets

\* The user reloads the page: a new session.
Reload ==
    /\ Idle
    /\ selected_sample' = sample_options[1]
    /\ art_style' = art_style_options[1]
    /\ mood' = mood_options[1]
    /\ color_palette' = color_palette_options[1]
    /\ detail_level' = detail_level_options[1]
    /\ camera_focus' = camera_focus_options[1]
    /\ era' = era_options[1]
    /\ text_area_value' = <<>>
    /\ passage' = <<>>
    /\ Rerun(FALSE)

Next ==
    \/ InitVertexAI
    \/ RenderForm
    \/ Button
    \/ GenerateImage
    \/ SelectSample
    \/ SelectOption
    \/ EditPassage
    \/ PressButton
    \/ Reload

Spec == Init /\ [][Next]_vars

\* ------------------------------------------------------------------------
\* _build_prompt on its own: any passage, any field values of its domain.

InitCompose ==
    /\ passage \in ComposePassages
    /\ art_style \in FieldValues(art_style_options)
    /\ mood \in FieldValues(mood_options)
    /\ color_palette \in FieldValues(color_palette_options)
    /\ detail_level \in FieldValues(detail_level_options)
    /\ camera_focus \in FieldValues(camera_focus_options)
    /\ era \in FieldValues(era_options)
    /\ final_prompt = <<>>
    /\ pc = "call"
    /\ selected_sample = DIRECT_INPUT
    /\ text_area_value = <<>>
    /\ clicked = FALSE
    /\ initialised = FALSE
    /\ shown = {}
    /\ requests = <<>>

Compose ==
    /\ pc = "call"
    /\ final_prompt' = _build_prompt(passage, art_style, mood, color_palette,
                                     detail_level, camera_focus, era)
    /\ pc' = "return"
    /\ UNCHANGED << widgets, clicked, initialised, shown, requests >>

NextCompose == Compose

SpecCompose == InitCompose /\ [][NextCompose]_vars

\* ------------------------------------------------------------------------
\* Reading a composed prompt back.

Fields == 1..6

\* The labels of lines 53-58 and the values handed to them, in call order.
Labels ==
    << LABEL_ART_STYLE, LABEL_MOOD, LABEL_COLOUR_PALETTE, LABEL_DETAIL,
       LABEL_CAMERA, LABEL_ERA >>

Selected == << art_style, mood, color_palette, detail_level, camera_focus, era >>

IsSet(f) == Selected[f] \notin Sentinels

SetFields == {f \in Fields : IsSet(f)}

IsPrefix(a, b) == Len(a) <= Len(b) /\ SubSeq(b, 1, Len(a)) = a

IsBlank(s) == \A i \in 1..Len(s) : s[i] \in WHITESPACE

\* t is s without its leading and trailing whitespace.
IsTrimOf(t, s) ==
    /\ t = <<>> \/ (t[1] \notin WHITESPACE /\ t[Len(t)] \notin WHITESPACE)
    /\ \E i \in 1..(Len(s) + 1) :
          /\ i + Len(t) - 1 <= Len(s)
          /\ t = SubSeq(s, i, i + Len(t) - 1)
          /\ \A k \in 1..Len(s) : (k < i \/ k >= i + Len(t)) => s[k] \in WHITESPACE

\* Index of the first occurrence of sep in s, 0 when there is none.
Find(s, sep) ==
    LET hits == {i \in 1..(Len(s) - Len(sep) + 1) : SubSeq(s, i, i + Len(sep) - 1) = sep}
    IN  IF hits = {} THEN 0 ELSE CHOOSE i \in hits : \A j \in hits : i <= j

\* s cut at every occurrence of sep.
RECURSIVE Split(_, _)
Split(s, sep) ==
    LET i == Find(s, sep)
    IN  IF i = 0 THEN <<s>>
        ELSE <<SubSeq(s, 1, i - 1)>> \o Split(SubSeq(s, i + Len(sep), Len(s)), sep)

\* What follows the passage segment of prompt out composed from passage p.
AfterPassage(out, p) ==
    IF IsBlank(p) THEN out
    ELSE SubSeq(out, Len(strip(p)) + Len(DELIMITER) + 1, Len(out))

\* The segments of out that follow the passage segment.
OptionSegments(out, p) ==
    IF AfterPassage(out, p) = <<>> THEN <<>> ELSE Split(AfterPassage(out, p), DELIMITER)

\* The passage segment comes first: out is the trimmed passage, alone or
\* followed by the delimiter.
PassageFirst(out, p) ==
    \/ out = strip(p)
    \/ IsPrefix(strip(p) \o DELIMITER, out)

\* The fields whose label opens segment seg.
FieldsOf(seg) == {f \in Fields : IsPrefix(Labels[f] \o LABEL_SEP, seg)}

\* _build_prompt with field f handed value v instead of the selected one.
BuildWith(f, v) ==
    LET sel == [Selected EXCEPT ![f] = v]
    IN  _build_prompt(passage, sel[1], sel[2], sel[3], sel[4], sel[5], sel[6])

OtherSentinel(v) == IF v = DEFAULT_MARK THEN NOT_CHOSEN_MARK ELSE DEFAULT_MARK

Returned == pc = "return"

\* ------------------------------------------------------------------------
\* Properties of _build_prompt, checked under SpecCompose.

\* C1: when each of the six fields holds a sentinel, _build_prompt returns
\* exactly the passage without its leading and trailing whitespace, with no
\* delimiter and no segment added; a blank passage gives the empty string.
AllSentinelGivesTrimmedPassage ==
    (Returned /\ SetFields = {}) =>
        /\ IsTrimOf(final_prompt, passage)
        /\ IsBlank(passage) => final_prompt = <<>>

\* A padded passage that contains the delimiter, with both sentinel
\* spellings among the fields, came back trimmed.
AllSentinelWitness ==
    /\ Returned
    /\ SetFields = {}
    /\ passage = PaddedPassage
    /\ art_style = NOT_CHOSEN_MARK
    /\ era = DEFAULT_MARK
    /\ final_prompt = <<"a", " ", "|", " ", "b">>

\* C2: after the passage segment the prompt holds exactly one "Label: value"
\* segment for each field whose value is not a sentinel, and no segment
\* carrying the label of a field whose value is either sentinel spelling.
SegmentIffNotSentinel ==
    Returned =>
        LET segs == OptionSegments(final_prompt, passage)
        IN  /\ Len(segs) = Cardinality(SetFields)
            /\ \A f \in Fields :
                  LET own == {i \in 1..Len(segs) : f \in FieldsOf(segs[i])}
                  IN  IF IsSet(f)
                      THEN /\ Cardinality(own) = 1
                           /\ \A i \in own : segs[i] = segment(Labels[f], Selected[f])
                      ELSE own = {}

\* Fields holding the sentinel spelling of another field's list are left
\* out, also when the passage itself reads like the segment of one of them,
\* while the set fields between them are kept.
SegmentIffNotSentinelWitness ==
    /\ Returned
    /\ art_style = NOT_CHOSEN_MARK
    /\ era = DEFAULT_MARK
    /\ SetFields = {2, 5}
    /\ passage = LabelLikePassage
    /\ Len(OptionSegments(final_prompt, passage)) = 2

\* C4: with a blank passage and at least one field set, the prompt begins
\* directly with the segment of the first set field; with exactly one field
\* set the prompt is that segment.
BlankPassageStartsWithFirstSegment ==
    (Returned /\ IsBlank(passage) /\ SetFields # {}) =>
        LET first == CHOOSE f \in SetFields : \A g \in SetFields : f <= g
        IN  /\ IsPrefix(segment(Labels[first], Selected[first]), final_prompt)
            /\ Cardinality(SetFields) = 1 =>
                  final_prompt = segment(Labels[first], Selected[first])

\* A whitespace-only passage with only the era set gave "Era: <value>".
BlankPassageWitness ==
    /\ Returned
    /\ passage = <<" ", " ">>
    /\ SetFields = {6}
    /\ final_prompt = LABEL_ERA \o <<":", " ">> \o era_options[2]

\* C5: replacing the value of a field that holds one sentinel spelling by
\* the other spelling does not change what _build_prompt returns.
SentinelSpellingIrrelevant ==
    Returned =>
        \A f \in Fields :
            Selected[f] \in Sentinels =>
                BuildWith(f, OtherSentinel(Selected[f])) = final_prompt

\* Both spellings occur among the fields, next to a set field.
SentinelSpellingWitness ==
    /\ Returned
    /\ mood = NOT_CHOSEN_MARK
    /\ detail_level = DEFAULT_MARK
    /\ SetFields = {1, 5}
    /\ passage = DarkCastle
    /\ final_prompt # DarkCastle

\* ------------------------------------------------------------------------
\* Properties of the page, checked under Spec.

\* The prompt of this run has been composed (line 138 has run).
Composed == "form" \in shown

\* C3: the prompt lists the trimmed passage first, when it is not empty, and
\* then the option segments in the order art style, mood, palette, detail,
\* camera, era, whichever fields are set and in whatever order the user set
\* them; "Ocean view" with the first mood and the first era gives
\* "Ocean view | Mood: ... | Era: ...".
SegmentsInFixedOrder ==
    Composed =>
        LET segs == OptionSegments(final_prompt, passage)
        IN  /\ ~IsBlank(passage) => PassageFirst(final_prompt, passage)
            /\ \A i \in 1..Len(segs) : Cardinality(FieldsOf(segs[i])) = 1
            /\ \A i, j \in 1..Len(segs) :
                  i < j => \A f \in FieldsOf(segs[i]), g \in FieldsOf(segs[j]) : f < g
            /\ (/\ passage = OceanView
                /\ SetFields = {2, 6}
                /\ mood = mood_options[2]
                /\ era = era_options[2]) => final_prompt = OceanViewPrompt

\* The scenario's prompt was composed on the page.
SegmentsInFixedOrderWitness ==
    /\ Composed
    /\ passage = OceanView
    /\ SetFields = {2, 6}
    /\ final_prompt = OceanViewPrompt

\* A generate press arrived with a blank passage and this run has ended.
BlankSubmissionEnded == clicked /\ Idle /\ IsBlank(passage)

\* C6 as stated: every generate press with a blank passage ends with the
\* warning shown, the run stopped and no request made.
BlankSubmissionAlwaysWarned ==
    BlankSubmissionEnded =>
        /\ "warning" \in shown
        /\ pc = "stopped"
        /\ requests = <<>>

\* C6 as amended: a generate press with a blank passage never leads to a
\* request, whatever options are selected, and when the run gets past
\* _init_vertex_ai it ends with the warning shown and the run stopped.
BlankSubmissionWarnedOnceInitialised ==
    /\ (clicked /\ IsBlank(passage)) =>
          /\ requests = <<>>
          /\ pc # "generate"
          /\ shown \cap {"image", "success", "error"} = {}
    /\ (BlankSubmissionEnded /\ initialised) =>
          /\ "warning" \in shown
          /\ pc = "stopped"

\* A blank passage was submitted with options that make the prompt non-empty.
BlankSubmissionWitness ==
    /\ BlankSubmissionEnded
    /\ initialised
    /\ "warning" \in shown
    /\ passage = <<" ", " ">>
    /\ SetFields = {1, 6}
    /\ final_prompt # <<>>

InitFailed == shown \cap {"key_error", "init_error"} # {}

\* C7: a request is made only in a run whose initialisation succeeded; a
\* missing key file or a raising vertexai.init is reported and stops the run
\* before the form is processed, so that run makes no request.
RequestOnlyAfterInit ==
    /\ requests # <<>> => initialised
    /\ pc \in {"form", "button", "generate", "done"} => initialised
    /\ InitFailed =>
          /\ ~initialised
          /\ pc = "stopped"
          /\ "form" \notin shown
          /\ requests = <<>>
    /\ (Idle /\ ~initialised) => InitFailed

\* A generate press with a usable passage whose run stopped in
\* _init_vertex_ai because vertexai.init raised.
InitFailureWitness ==
    /\ clicked
    /\ ~IsBlank(passage)
    /\ "init_error" \in shown
    /\ pc = "stopped"

\* C8: a submission calls the service at most once; when obtaining the model
\* or the call raises, the error is shown, nothing is retried, and neither
\* an image nor the success message is shown.
AtMostOneRequestNoRetry ==
    /\ Len(requests) <= 1
    /\ "error" \in shown =>
          /\ shown \cap {"image", "success"} = {}
          /\ pc = "done"
    /\ (pc = "done" /\ clicked) =>
          \/ "error" \in shown
          \/ /\ {"image", "success"} \subseteq shown
             /\ Len(requests) = 1
    /\ requests # <<>> => clicked

\* The call was made once, raised, and the run ended with the error shown.
FailedRequestWitness ==
    /\ pc = "done"
    /\ clicked
    /\ Len(requests) = 1
    /\ "error" \in shown

\* C9: the prompt passed to the service is exactly what _build_prompt
\* returns for the passage and the six option values in the form; a sample
\* reaches the service only as content of the text area.
RequestIsComposedPrompt ==
    \A i \in 1..Len(requests) :
        requests[i] = _build_prompt(passage, art_style, mood, color_palette,
                                    detail_level, camera_focus, era)

\* A sample was loaded, the user replaced its text, and the request carried
\* the edited passage.
EditedSampleWitness ==
    /\ Len(requests) = 1
    /\ selected_sample # DIRECT_INPUT
    /\ passage = OceanView
    /\ SetFields = {3}
    /\ ~IsPrefix(default_passage, requests[1])

\* C10: every prompt sent is non-empty and has the non-empty trimmed passage
\* as its first segment; the prompt of a blank passage, which is empty or
\* starts with an option segment, is never sent.
SentPromptStartsWithPassage ==
    \A i \in 1..Len(requests) :
        /\ requests[i] # <<>>
        /\ ~IsBlank(passage)
        /\ strip(passage) # <<>>
        /\ PassageFirst(requests[i], passage)

\* A padded passage was sent, trimmed, ahead of an option segment.
SentPromptWitness ==
    /\ Len(requests) = 1
    /\ passage = <<" ", "a">>
    /\ SetFields = {4}
    /\ requests[1] = <<"a">> \o DELIMITER \o segment(LABEL_DETAIL, detail_level)

====
